---- MODULE Spec2Model ----
(***************************************************************************)
(* Model of segmentation_models_dev/models/unet.py: the Unet factory, the  *)
(* graph assembler build_unet and the two decoder stage blocks.            *)
(*                                                                         *)
(* A graph is the sequence of nodes a call has created, in creation order. *)
(* Every node records the tensor library that created it, its name, the    *)
(* node that produced its input and the shape of its output.  Shapes are   *)
(* channels-last (h, w, c).                                                *)
(*                                                                         *)
(* Left out, as they change no node, name or shape: drop_rate and          *)
(* groupnorm_groups (passed through to the conv blocks), encoder_weights   *)
(* and the resnet18_modified registry path, encoder_freeze and weights     *)
(* (applied to the finished model).  The normalization flags are booleans. *)
(***************************************************************************)
EXTENDS Integers, Sequences, FiniteSets, TLC

\* ---------------------------------------------------------------- bounds
MaxStages == 5     \* longest decoder_filters the inputs draw
MaxBuilds == 2     \* calls made one after the other in one behaviour

\* ------------------------------------------------------------ input sets
None == "None"
Threads == {"t1", "t2"}
MainThread == "t1"
Libs == {"keras", "tf.keras"}
BlockTypes == {"upsampling", "transpose", "deconv"}
LastKinds == {"Conv2D", "MaxPooling2D", "AveragePooling2D"}
Heads == {[classes |-> 1, activation |-> "sigmoid"],
          [classes |-> 5, activation |-> "softmax"]}

\* decoder_filters: the default (256, 128, 64, 32, 16), halved once more for
\* lists longer than the default
DefaultDecoderFilters == <<256, 128, 64, 32, 16, 8>>
FiltersOfLen(n) == SubSeq(DefaultDecoderFilters, 1, n)

\* skip descriptors: a layer name (isinstance(i, str)) or a layer index
ByName(n) == [str |-> TRUE, name |-> n, index |-> 0]
ByIndex(k) == [str |-> FALSE, name |-> "", index |-> k]
\* encoder_features values the inputs draw; default stands for 'default'
Features(l) == [default |-> FALSE, list |-> l]
FeatureLists ==
    { [default |-> TRUE, list |-> <<>>],
      Features(<<>>),
      Features(<<ByName("f1")>>),
      Features(<<ByName("f1"), ByName("f2")>>),
      Features(<<ByIndex(4), ByName("f2")>>),
      Features(<<ByName("f1"), ByName("f2"), ByName("f3")>>),
      Features(<<ByName("nope")>>),
      Features(<<ByName("f1"), ByIndex(9)>>),
      Features(<<ByName("f2")>>),
      Features(<<ByName("f1"), ByName("f3")>>) }

\* --------------------------------------------------------------- tensors
NoTensor == [src |-> None, h |-> 0, w |-> 0, c |-> 0]
Tensor(src, h, w, c) == [src |-> src, h |-> h, w |-> w, c |-> c]

RECURSIVE Pow2(_)
Pow2(n) == IF n = 0 THEN 1 ELSE 2 * Pow2(n - 1)

\* ---------------------------------------------------- backbone registry
\* Backbones.get_backbone: a backbone built with tensor library lib whose
\* last layer is of kind last.  Its layers run from the input to the top;
\* feature layer f<k> has 2^k times the spatial size of the output.
BackboneLayers(last) ==
    << [name |-> "input", kind |-> "InputLayer", out |-> Tensor("input", 32, 64, 3)],
       [name |-> "f4", kind |-> "Activation", out |-> Tensor("f4", 16, 32, 4)],
       [name |-> "f3", kind |-> "Activation", out |-> Tensor("f3", 8, 16, 8)],
       [name |-> "f2", kind |-> "Activation", out |-> Tensor("f2", 4, 8, 16)],
       [name |-> "f1", kind |-> "Activation", out |-> Tensor("f1", 2, 4, 32)],
       [name |-> "top", kind |-> last, out |-> Tensor("top", 1, 2, 64)] >>

NoBackbone == [lib |-> None, layers |-> <<>>]
get_backbone(lib, last) == [lib |-> lib, layers |-> BackboneLayers(last)]
backbone_input(bb) == bb.layers[1].out
backbone_output(bb) == bb.layers[Len(bb.layers)].out

\* Backbones.get_feature_layers(backbone_name, n=4)
get_feature_layers == <<ByName("f1"), ByName("f2"), ByName("f3"), ByName("f4")>>

\* backbone.get_layer(name=i).output if isinstance(i, str) else
\* backbone.get_layer(index=i).output; NoTensor when the lookup raises
get_layer_output(bb, d) ==
    IF d.str
    THEN IF \E k \in 1..Len(bb.layers) : bb.layers[k].name = d.name
         THEN bb.layers[CHOOSE k \in 1..Len(bb.layers) : bb.layers[k].name = d.name].out
         ELSE NoTensor
    ELSE IF d.index < Len(bb.layers) THEN bb.layers[d.index + 1].out ELSE NoTensor

\* ----------------------------------------------------------------- state
VARIABLES
    backend, layers, models, keras_utils,  \* the module's globals (lines 8-11)
    pc,             \* per thread: where its call stands
    call,           \* per thread: the entry point called
    cfg,            \* per thread: the arguments of the call
    decoder_block,  \* per thread: the block variant Unet selected
    backbone,       \* per thread: the backbone the call works on
    skips,          \* per thread: build_unet's resolved skip tensors
    x,              \* per thread: build_unet's running tensor
    i,              \* per thread: build_unet's loop index
    graph,          \* per thread: the nodes the call has created so far
    result,         \* per thread: what the call raised or returned
    nbuilds,        \* calls started so far in this process
    prev            \* the call and node names of the model returned before

vars == <<backend, layers, models, keras_utils, pc, call, cfg, decoder_block,
          backbone, skips, x, i, graph, result, nbuilds, prev>>
globals == <<backend, layers, models, keras_utils>>
locals == <<decoder_block, backbone, skips, x, i, graph>>

\* get_submodules(), lines 18-24
get_submodules ==
    [backend |-> backend, models |-> models, layers |-> layers, utils |-> keras_utils]

\* ----------------------------------------------------------------- nodes
NoStage == 0 - 1
Node(name, op, lib, stage, filters, norm, bias, input, skip, out) ==
    [name |-> name, op |-> op, lib |-> lib, stage |-> stage, filters |-> filters,
     norm |-> norm, bias |-> bias, inp |-> input.src, skip |-> skip.src,
     out |-> [out EXCEPT !.src = name]]

\* Conv2dBn / Conv2dGn of _common_blocks: one 3x3 convolution, then the
\* normalization the flag asks for, then ReLU, as one named fragment built
\* with the submodules passed in kwargs
Conv2dBn(filters, use_batchnorm, name, kwargs, stage, input_tensor) ==
    Node(name, "Conv2dBn", kwargs.layers, stage, filters,
         IF use_batchnorm THEN "bn" ELSE "none", ~use_batchnorm,
         input_tensor, NoTensor, [input_tensor EXCEPT !.c = filters])

Conv2dGn(filters, use_groupnorm, name, kwargs, stage, input_tensor) ==
    Node(name, "Conv2dGn", kwargs.layers, stage, filters,
         IF use_groupnorm THEN "gn" ELSE "none", ~use_groupnorm,
         input_tensor, NoTensor, [input_tensor EXCEPT !.c = filters])

\* lines 31-47 and 49-66
Conv3x3BnReLU(filters, use_batchnorm, name, stage, input_tensor) ==
    Conv2dBn(filters, use_batchnorm, name, get_submodules, stage, input_tensor)

Conv3x3GnReLU(filters, use_groupnorm, name, stage, input_tensor) ==
    Conv2dGn(filters, use_groupnorm, name, get_submodules, stage, input_tensor)

\* the tensor library's primitives
UpSampling2D(name, stage, t) ==
    Node(name, "UpSampling2D", layers, stage, t.c, "none", FALSE, t, NoTensor,
         [t EXCEPT !.h = 2 * t.h, !.w = 2 * t.w])

CanConcat(a, b) == a.h = b.h /\ a.w = b.w
Concatenate(name, stage, t, skip) ==
    Node(name, "Concatenate", layers, stage, t.c + skip.c, "none", FALSE, t, skip,
         [t EXCEPT !.c = t.c + skip.c])

\* mutant: strides (1, 1)
Conv2DTranspose_Stride1(filters, name, use_bias, stage, t) ==
    Node(name, "Conv2DTranspose", layers, stage, filters, "none", use_bias, t, NoTensor,
         [t EXCEPT !.c = filters])

\* kernel (4, 4), strides (2, 2), padding 'same'
Conv2DTranspose(filters, name, use_bias, stage, t) ==
    Node(name, "Conv2DTranspose", layers, stage, filters, "none", use_bias, t, NoTensor,
         [t EXCEPT !.h = 2 * t.h, !.w = 2 * t.w, !.c = filters])

BatchNormalization(name, stage, t) ==
    Node(name, "BatchNormalization", layers, stage, t.c, "bn", FALSE, t, NoTensor, t)

GroupNormalization(name, stage, t) ==
    Node(name, "GroupNormalization", "tfa", stage, t.c, "gn", FALSE, t, NoTensor, t)

Activation(activation, name, stage, t) ==
    Node(name, "Activation_" \o activation, layers, stage, t.c, "none", FALSE, t,
         NoTensor, t)

Conv2D(filters, name, t) ==
    Node(name, "Conv2D", layers, NoStage, filters, "none", TRUE, t, NoTensor,
         [t EXCEPT !.c = filters])

\* what a block call gives: the error raised (or "") , the nodes it created
\* before returning or raising, and its output tensor
Outcome(err, nodes, out) == [err |-> err, nodes |-> nodes, out |-> out]

\* ---------------------------------------------------------- node names
\* lines 69-72
up_name(stage) == "decoder_stage" \o ToString(stage) \o "_upsampling"
conv1_name(stage) == "decoder_stage" \o ToString(stage) \o "a"
conv2_name(stage) == "decoder_stage" \o ToString(stage) \o "b"
\* mutant: the tensor library names the node itself, from a running count
concat_name_Auto(stage) == "concatenate_" \o ToString(nbuilds)
concat_name(stage) == "decoder_stage" \o ToString(stage) \o "_concat"
\* lines 99-103
transp_name(stage) == "decoder_stage" \o ToString(stage) \o "a_transpose"
bn_name(stage) == "decoder_stage" \o ToString(stage) \o "a_bn"
gn_name(stage) == "decoder_state" \o ToString(stage) \o "a_gn"
relu_name(stage) == "decoder_stage" \o ToString(stage) \o "a_relu"
conv_block_name(stage) == "decoder_stage" \o ToString(stage) \o "b"

\* --------------------------------------------------------- decoder blocks
\* mutant: the second conv block is given the first one's name
UpsamplingConvs_SameName(filters, stage, use_groupnorm, use_batchnorm, t) ==
    IF use_groupnorm
    THEN LET c1 == Conv3x3GnReLU(filters, use_groupnorm, conv1_name(stage), stage, t)
             c2 == Conv3x3GnReLU(filters, use_groupnorm, conv1_name(stage), stage, c1.out)
         IN  <<c1, c2>>
    ELSE LET c1 == Conv3x3BnReLU(filters, use_batchnorm, conv1_name(stage), stage, t)
             c2 == Conv3x3BnReLU(filters, use_batchnorm, conv1_name(stage), stage, c1.out)
         IN  <<c1, c2>>

\* the two stacked conv blocks of the upsampling variant, lines 85-91
UpsamplingConvs(filters, stage, use_groupnorm, use_batchnorm, t) ==
    IF use_groupnorm
    THEN LET c1 == Conv3x3GnReLU(filters, use_groupnorm, conv1_name(stage), stage, t)
             c2 == Conv3x3GnReLU(filters, use_groupnorm, conv2_name(stage), stage, c1.out)
         IN  <<c1, c2>>
    ELSE LET c1 == Conv3x3BnReLU(filters, use_batchnorm, conv1_name(stage), stage, t)
             c2 == Conv3x3BnReLU(filters, use_batchnorm, conv2_name(stage), stage, c1.out)
         IN  <<c1, c2>>

\* DecoderUpsamplingX2Block(...)(input_tensor, skip), lines 68-95
DecoderUpsamplingX2Block(filters, stage, use_groupnorm, use_batchnorm, input_tensor, skip) ==
    IF backend = None
    THEN Outcome("AttributeError", <<>>, NoTensor)
    ELSE IF use_batchnorm /\ use_groupnorm
    THEN Outcome("ValueError_norm", <<>>, NoTensor)
    ELSE LET up == UpSampling2D(up_name(stage), stage, input_tensor)
         IN  IF skip # NoTensor /\ ~CanConcat(up.out, skip)
             THEN Outcome("ShapeError", <<up>>, NoTensor)
             ELSE LET cat == IF skip # NoTensor
                             THEN <<Concatenate(concat_name(stage), stage, up.out, skip)>>
                             ELSE <<>>
                      t == IF skip # NoTensor THEN cat[1].out ELSE up.out
                      convs == UpsamplingConvs(filters, stage, use_groupnorm,
                                               use_batchnorm, t)
                 IN  Outcome("", <<up>> \o cat \o convs, convs[2].out)

\* the normalization and activation after the transposed convolution,
\* lines 122-128
TransposeNormRelu(stage, use_groupnorm, use_batchnorm, t) ==
    LET bn == IF use_batchnorm THEN <<BatchNormalization(bn_name(stage), stage, t)>>
              ELSE <<>>
        t1 == IF use_batchnorm THEN bn[1].out ELSE t
        gn == IF use_groupnorm THEN <<GroupNormalization(gn_name(stage), stage, t1)>>
              ELSE <<>>
        t2 == IF use_groupnorm THEN gn[1].out ELSE t1
    IN  bn \o gn \o <<Activation("relu", relu_name(stage), stage, t2)>>

\* the conv block closing the transpose variant, lines 133-136
TransposeConv(filters, stage, use_groupnorm, use_batchnorm, t) ==
    IF use_groupnorm
    THEN Conv3x3GnReLU(filters, use_groupnorm, conv_block_name(stage), stage, t)
    ELSE Conv3x3BnReLU(filters, use_batchnorm, conv_block_name(stage), stage, t)

\* DecoderTransposeX2Block(...)(input_tensor, skip), lines 98-140
DecoderTransposeX2Block(filters, stage, use_groupnorm, use_batchnorm, input_tensor, skip) ==
    IF backend = None
    THEN Outcome("AttributeError", <<>>, NoTensor)
    ELSE LET tr == Conv2DTranspose(filters, transp_name(stage),
                                   ~(use_batchnorm \/ use_groupnorm), stage, input_tensor)
         IN  IF use_batchnorm /\ use_groupnorm
             THEN Outcome("ValueError_norm", <<tr>>, NoTensor)
             ELSE LET nr == TransposeNormRelu(stage, use_groupnorm, use_batchnorm, tr.out)
                      r == nr[Len(nr)].out
                  IN  IF skip # NoTensor /\ ~CanConcat(r, skip)
                      THEN Outcome("ShapeError", <<tr>> \o nr, NoTensor)
                      ELSE LET cat == IF skip # NoTensor
                                      THEN <<Concatenate(concat_name(stage), stage, r, skip)>>
                                      ELSE <<>>
                               t == IF skip # NoTensor THEN cat[1].out ELSE r
                               cb == TransposeConv(filters, stage, use_groupnorm,
                                                   use_batchnorm, t)
                           IN  Outcome("", <<tr>> \o nr \o cat \o <<cb>>, cb.out)

\* decoder_block(...)(x, skip) for the variant bound to decoder_block
ApplyDecoderBlock(db, filters, stage, use_groupnorm, use_batchnorm, input_tensor, skip) ==
    IF db = "DecoderUpsamplingX2Block"
    THEN DecoderUpsamplingX2Block(filters, stage, use_groupnorm, use_batchnorm,
                                  input_tensor, skip)
    ELSE DecoderTransposeX2Block(filters, stage, use_groupnorm, use_batchnorm,
                                 input_tensor, skip)

\* ------------------------------------------------------------ call inputs
NoCfg ==
    [lib |-> None, last |-> None, decoder_block_type |-> None, decoder_filters |-> <<>>,
     n_upsample_blocks |-> 0, encoder_features |-> Features(<<>>), classes |-> 0,
     activation |-> None, use_batchnorm |-> FALSE, use_groupnorm |-> FALSE,
     stage |-> 0, input |-> NoTensor, skip |-> NoTensor]

\* arguments of Unet(...): kwargs name the tensor library lib, the registry
\* answers backbone_name with a backbone ending in a layer of kind last
UnetConfigs ==
    { [NoCfg EXCEPT !.lib = l, !.last = k, !.decoder_block_type = b,
                    !.decoder_filters = FiltersOfLen(n), !.encoder_features = f,
                    !.classes = hd.classes, !.activation = hd.activation,
                    !.use_batchnorm = bn, !.use_groupnorm = gn] :
        l \in Libs, k \in LastKinds, b \in BlockTypes, n \in 0..MaxStages,
        f \in FeatureLists, hd \in Heads, bn \in BOOLEAN, gn \in BOOLEAN }

\* arguments of a direct build_unet(...) call: decoder_block_type holds the
\* block passed as decoder_block, and n_upsample_blocks need not be
\* len(decoder_filters)
BlockOfType(b) ==
    IF b = "upsampling" THEN "DecoderUpsamplingX2Block" ELSE "DecoderTransposeX2Block"

BuildConfigs ==
    { [NoCfg EXCEPT !.lib = l, !.last = k, !.decoder_block_type = b,
                    !.decoder_filters = FiltersOfLen(n), !.n_upsample_blocks = n + m,
                    !.encoder_features = f,
                    !.classes = 1, !.activation = "sigmoid",
                    !.use_batchnorm = bn, !.use_groupnorm = gn] :
        l \in Libs, k \in LastKinds, b \in {"upsampling", "transpose"},
        n \in 1..MaxStages, m \in {0, 1},
        f \in {g \in FeatureLists : ~g.default},
        bn \in BOOLEAN, gn \in BOOLEAN }

\* arguments of a direct decoder block call: block(filters, stage, ...)(x, skip)
BlockInput == Tensor("x", 2, 4, 32)
BlockSkips == {NoTensor, Tensor("s", 4, 8, 16), Tensor("s", 8, 16, 8)}
BlockConfigs ==
    { [NoCfg EXCEPT !.decoder_block_type = b, !.decoder_filters = <<16>>,
                    !.stage = st, !.input = BlockInput, !.skip = sk,
                    !.use_batchnorm = bn, !.use_groupnorm = gn] :
        b \in {"upsampling", "transpose"}, st \in 0..(MaxStages - 1),
        sk \in BlockSkips, bn \in BOOLEAN, gn \in BOOLEAN }

\* two factory calls that differ in the tensor library their kwargs name
ConcConfigs ==
    { c \in UnetConfigs :
        /\ c.decoder_block_type = "upsampling"
        /\ c.last = "MaxPooling2D"
        /\ Len(c.decoder_filters) = 1
        /\ c.encoder_features = Features(<<ByName("f1")>>)
        /\ c.classes = 1
        /\ c.use_batchnorm /\ ~c.use_groupnorm }

\* ----------------------------------------------------------------- results
NoModel == [input |-> NoTensor, output |-> NoTensor, nodes |-> <<>>]
NoResult == [status |-> "none", model |-> NoModel]
Raised(e) == [status |-> e, model |-> NoModel]
NoPrev == [call |-> None, cfg |-> NoCfg, names |-> {}]
Names(nodes) == {nodes[k].name : k \in 1..Len(nodes)}

Init ==
    /\ backend = None /\ layers = None /\ models = None /\ keras_utils = None
    /\ pc = [p \in Threads |-> "idle"]
    /\ call = [p \in Threads |-> None]
    /\ cfg = [p \in Threads |-> NoCfg]
    /\ decoder_block = [p \in Threads |-> None]
    /\ backbone = [p \in Threads |-> NoBackbone]
    /\ skips = [p \in Threads |-> <<>>]
    /\ x = [p \in Threads |-> NoTensor]
    /\ i = [p \in Threads |-> 0]
    /\ graph = [p \in Threads |-> <<>>]
    /\ result = [p \in Threads |-> NoResult]
    /\ nbuilds = 0
    /\ prev = NoPrev

\* a call may be entered: the thread is between calls
CanEnter(p) == pc[p] = "idle" /\ nbuilds < MaxBuilds

\* a call is entered: fresh locals, nothing created, nothing returned yet
Enter(p, entry, c, at, db, bb) ==
    /\ pc' = [pc EXCEPT ![p] = at]
    /\ call' = [call EXCEPT ![p] = entry]
    /\ cfg' = [cfg EXCEPT ![p] = c]
    /\ decoder_block' = [decoder_block EXCEPT ![p] = db]
    /\ backbone' = [backbone EXCEPT ![p] = bb]
    /\ skips' = [skips EXCEPT ![p] = <<>>]
    /\ x' = [x EXCEPT ![p] = NoTensor]
    /\ i' = [i EXCEPT ![p] = 0]
    /\ graph' = [graph EXCEPT ![p] = <<>>]
    /\ result' = [result EXCEPT ![p] = NoResult]
    /\ nbuilds' = nbuilds + 1
    /\ UNCHANGED <<globals, prev>>

\* the call raises e or returns: its frame is left as it stood
Finish(p, r) ==
    /\ pc' = [pc EXCEPT ![p] = "done"]
    /\ result' = [result EXCEPT ![p] = r]

Goto(p, at) ==
    /\ pc' = [pc EXCEPT ![p] = at]
    /\ UNCHANGED result

\* the inputs a call may take: anything, or the previous call's when its
\* model is kept for comparison
Choices(entry, C) ==
    IF prev = NoPrev THEN C ELSE IF prev.call = entry THEN {prev.cfg} ELSE {}

\* ------------------------------------------------------------------ Unet
\* Unet(...) is called with arguments drawn from C
UnetCall(p, C) ==
    /\ CanEnter(p)
    /\ \E c \in Choices("Unet", C) : Enter(p, "Unet", c, "U_check", None, NoBackbone)

\* lines 264-265
UnetCheckNorm(p) ==
    /\ pc[p] = "U_check"
    /\ IF cfg[p].use_batchnorm /\ cfg[p].use_groupnorm
       THEN Finish(p, Raised("ValueError_norm"))
       ELSE Goto(p, "U_bind")
    /\ UNCHANGED <<globals, call, cfg, locals, nbuilds, prev>>

\* lines 267-269: the globals are rebound to the submodules kwargs name
UnetBindSubmodules(p) ==
    /\ pc[p] = "U_bind"
    /\ backend' = cfg[p].lib
    /\ layers' = cfg[p].lib
    /\ models' = cfg[p].lib
    /\ keras_utils' = cfg[p].lib
    /\ Goto(p, "U_select")
    /\ UNCHANGED <<call, cfg, locals, nbuilds, prev>>

\* mutant: an unknown type falls back to the default block
SelectDecoderBlock_Fallback(decoder_block_type) ==
    IF decoder_block_type = "transpose" THEN "DecoderTransposeX2Block"
    ELSE "DecoderUpsamplingX2Block"

\* lines 271-277
SelectDecoderBlock(decoder_block_type) ==
    IF decoder_block_type = "upsampling" THEN "DecoderUpsamplingX2Block"
    ELSE IF decoder_block_type = "transpose" THEN "DecoderTransposeX2Block"
    ELSE None

UnetSelectBlock(p) ==
    /\ pc[p] = "U_select"
    /\ LET db == SelectDecoderBlock(cfg[p].decoder_block_type)
       IN  IF db = None
           THEN /\ Finish(p, Raised("ValueError_block"))
                /\ UNCHANGED decoder_block
           ELSE /\ Goto(p, "U_backbone")
                /\ decoder_block' = [decoder_block EXCEPT ![p] = db]
    /\ UNCHANGED <<globals, call, cfg, backbone, skips, x, i, graph, nbuilds, prev>>

\* lines 280-299: the backbone comes from the registry, built with the
\* submodules in kwargs
UnetGetBackbone(p) ==
    /\ pc[p] = "U_backbone"
    /\ backbone' = [backbone EXCEPT ![p] = get_backbone(cfg[p].lib, cfg[p].last)]
    /\ Goto(p, "U_features")
    /\ UNCHANGED <<globals, call, cfg, decoder_block, skips, x, i, graph, nbuilds, prev>>

\* lines 301-316: the default skip list, and the arguments of build_unet
UnetCallBuild(p) ==
    /\ pc[p] = "U_features"
    /\ cfg' = [cfg EXCEPT ![p].encoder_features =
                              IF @.default THEN Features(get_feature_layers) ELSE @,
                          ![p].n_upsample_blocks = Len(cfg[p].decoder_filters)]
    /\ Goto(p, "B_check")
    /\ UNCHANGED <<globals, call, locals, nbuilds, prev>>

\* ------------------------------------------------------------ build_unet
\* build_unet(...) is called directly, with a backbone of the bound library
BuildCall(p) ==
    /\ CanEnter(p)
    /\ \E c \in Choices("build_unet", BuildConfigs) :
        /\ layers # None => c.lib = layers
        /\ Enter(p, "build_unet", c, "B_check", BlockOfType(c.decoder_block_type),
                 get_backbone(c.lib, c.last))

\* lines 160-161
BuildCheckNorm(p) ==
    /\ pc[p] = "B_check"
    /\ IF cfg[p].use_batchnorm /\ cfg[p].use_groupnorm
       THEN Finish(p, Raised("ValueError_norm"))
       ELSE Goto(p, "B_skips")
    /\ UNCHANGED <<globals, call, cfg, locals, nbuilds, prev>>

\* lines 167-168
ResolveSkips(bb, skip_connection_layers) ==
    [k \in 1..Len(skip_connection_layers) |->
        get_layer_output(bb, skip_connection_layers[k])]

\* mutant: a descriptor that names no layer is dropped from the skips
BuildExtractSkips_DropUnresolved(p) ==
    /\ pc[p] = "B_skips"
    /\ LET sk == ResolveSkips(backbone[p], cfg[p].encoder_features.list)
       IN  skips' = [skips EXCEPT ![p] = SelectSeq(sk, LAMBDA t : t # NoTensor)]
    /\ Goto(p, "B_center")
    /\ x' = [x EXCEPT ![p] = backbone_output(backbone[p])]
    /\ UNCHANGED <<globals, call, cfg, decoder_block, backbone, i, graph, nbuilds, prev>>

\* lines 163-168
BuildExtractSkips(p) ==
    /\ pc[p] = "B_skips"
    /\ LET sk == ResolveSkips(backbone[p], cfg[p].encoder_features.list)
       IN  IF \E k \in 1..Len(sk) : sk[k] = NoTensor
           THEN /\ Finish(p, Raised("ValueError_layer"))
                /\ UNCHANGED skips
           ELSE /\ Goto(p, "B_center")
                /\ skips' = [skips EXCEPT ![p] = sk]
    /\ x' = [x EXCEPT ![p] = backbone_output(backbone[p])]
    /\ UNCHANGED <<globals, call, cfg, decoder_block, backbone, i, graph, nbuilds, prev>>

\* mutant: any pooling layer counts
LastIsMaxPooling_AnyPooling(bb) ==
    /\ bb.layers[Len(bb.layers)].kind \in {"MaxPooling2D", "AveragePooling2D"}
    /\ bb.lib = layers

\* isinstance(backbone.layers[-1], layers.MaxPooling2D), line 171
LastIsMaxPooling(bb) ==
    /\ bb.layers[Len(bb.layers)].kind = "MaxPooling2D"
    /\ bb.lib = layers

CenterFilters == 512

\* lines 172-177
CenterBlock(use_groupnorm, use_batchnorm, t) ==
    IF use_groupnorm
    THEN LET c1 == Conv3x3GnReLU(CenterFilters, use_groupnorm, "center_block1", NoStage, t)
             c2 == Conv3x3GnReLU(CenterFilters, use_groupnorm, "center_block2", NoStage,
                                 c1.out)
         IN  <<c1, c2>>
    ELSE LET c1 == Conv3x3BnReLU(CenterFilters, use_batchnorm, "center_block1", NoStage, t)
             c2 == Conv3x3BnReLU(CenterFilters, use_batchnorm, "center_block2", NoStage,
                                 c1.out)
         IN  <<c1, c2>>

\* lines 170-177
BuildCenter(p) ==
    /\ pc[p] = "B_center"
    /\ IF layers = None
       THEN /\ Finish(p, Raised("AttributeError"))
            /\ UNCHANGED <<x, graph>>
       ELSE IF LastIsMaxPooling(backbone[p])
       THEN LET cb == CenterBlock(cfg[p].use_groupnorm, cfg[p].use_batchnorm, x[p])
            IN  /\ graph' = [graph EXCEPT ![p] = @ \o cb]
                /\ x' = [x EXCEPT ![p] = cb[2].out]
                /\ Goto(p, "B_stage")
       ELSE /\ Goto(p, "B_stage")
            /\ UNCHANGED <<x, graph>>
    /\ UNCHANGED <<globals, call, cfg, decoder_block, backbone, skips, i, nbuilds, prev>>

\* mutant: the bound test of the loop is off by one
SkipOfStage_OffByOne(sk, k) == IF k + 1 < Len(sk) THEN sk[k + 1] ELSE NoTensor

\* lines 182-185: the skip of stage k (0-based), NoTensor for none
SkipOfStage(sk, k) == IF k < Len(sk) THEN sk[k + 1] ELSE NoTensor

\* mutant: the group normalization flag is never passed on
StageBlock_NoGroupnorm(db, c, k, t, skip) ==
    ApplyDecoderBlock(db, c.decoder_filters[k + 1], k, FALSE, c.use_batchnorm, t, skip)

\* lines 186-190: the flags the block is built with
StageBlock(db, c, k, t, skip) ==
    IF c.use_groupnorm
    THEN ApplyDecoderBlock(db, c.decoder_filters[k + 1], k, c.use_groupnorm,
                           c.use_batchnorm, t, skip)
    ELSE ApplyDecoderBlock(db, c.decoder_filters[k + 1], k, FALSE,
                           c.use_batchnorm, t, skip)

\* lines 180-190: one turn of the loop, or its end
BuildStage(p) ==
    /\ pc[p] = "B_stage"
    /\ IF i[p] >= cfg[p].n_upsample_blocks
       THEN /\ Goto(p, "B_head")
            /\ UNCHANGED <<x, i, graph>>
       ELSE IF i[p] >= Len(cfg[p].decoder_filters)
       THEN /\ Finish(p, Raised("IndexError"))
            /\ UNCHANGED <<x, i, graph>>
       ELSE LET o == StageBlock(decoder_block[p], cfg[p], i[p], x[p],
                                SkipOfStage(skips[p], i[p]))
            IN  /\ graph' = [graph EXCEPT ![p] = @ \o o.nodes]
                /\ IF o.err = ""
                   THEN /\ x' = [x EXCEPT ![p] = o.out]
                        /\ i' = [i EXCEPT ![p] = @ + 1]
                        /\ Goto(p, "B_stage")
                   ELSE /\ Finish(p, Raised(o.err))
                        /\ UNCHANGED <<x, i>>
    /\ UNCHANGED <<globals, call, cfg, decoder_block, backbone, skips, nbuilds, prev>>

\* lines 193-201
ModelHead(classes, activation, t) ==
    LET fc == Conv2D(classes, "final_conv", t)
    IN  <<fc, Activation(activation, activation, NoStage, fc.out)>>

BuildHead(p) ==
    /\ pc[p] = "B_head"
    /\ LET hd == ModelHead(cfg[p].classes, cfg[p].activation, x[p])
       IN  /\ graph' = [graph EXCEPT ![p] = @ \o hd]
           /\ x' = [x EXCEPT ![p] = hd[2].out]
    /\ Goto(p, "B_model")
    /\ UNCHANGED <<globals, call, cfg, decoder_block, backbone, skips, i, nbuilds, prev>>

\* lines 204-206, and for Unet lines 318-326: the model is returned
BuildReturn(p) ==
    /\ pc[p] = "B_model"
    /\ Finish(p, [status |-> "model",
                  model |-> [input |-> backbone_input(backbone[p]), output |-> x[p],
                             nodes |-> graph[p]]])
    /\ UNCHANGED <<globals, call, cfg, locals, nbuilds, prev>>

\* ------------------------------------------------------ direct block call
\* block(filters, stage, ...)(input_tensor, skip) called on its own
BlockCall(p) ==
    /\ CanEnter(p)
    /\ \E c \in Choices("block", BlockConfigs) :
        LET o == ApplyDecoderBlock(BlockOfType(c.decoder_block_type), c.decoder_filters[1],
                                   c.stage, c.use_groupnorm, c.use_batchnorm,
                                   c.input, c.skip)
        IN  /\ nbuilds' = nbuilds + 1
            /\ call' = [call EXCEPT ![p] = "block"]
            /\ cfg' = [cfg EXCEPT ![p] = c]
            /\ graph' = [graph EXCEPT ![p] = o.nodes]
            /\ x' = [x EXCEPT ![p] = o.out]
            /\ Finish(p, IF o.err = "" THEN [NoResult EXCEPT !.status = "tensor"]
                         ELSE Raised(o.err))
            /\ UNCHANGED <<globals, decoder_block, backbone, skips, i, prev>>

\* the caller takes the result and drops the frame; a returned model's
\* call and node names may be kept to compare the next build with
Collect(p) ==
    /\ pc[p] = "done"
    /\ pc' = [pc EXCEPT ![p] = "idle"]
    /\ call' = [call EXCEPT ![p] = None]
    /\ cfg' = [cfg EXCEPT ![p] = NoCfg]
    /\ decoder_block' = [decoder_block EXCEPT ![p] = None]
    /\ backbone' = [backbone EXCEPT ![p] = NoBackbone]
    /\ skips' = [skips EXCEPT ![p] = <<>>]
    /\ x' = [x EXCEPT ![p] = NoTensor]
    /\ i' = [i EXCEPT ![p] = 0]
    /\ graph' = [graph EXCEPT ![p] = <<>>]
    /\ result' = [result EXCEPT ![p] = NoResult]
    /\ \/ prev' = NoPrev
       \/ /\ result[p].status = "model"
          /\ prev' = [call |-> call[p], cfg |-> cfg[p],
                      names |-> Names(result[p].model.nodes)]
    /\ UNCHANGED <<globals, nbuilds>>

\* -------------------------------------------------------- specifications
Step(p) ==
    \/ UnetCheckNorm(p)
    \/ UnetBindSubmodules(p)
    \/ UnetSelectBlock(p)
    \/ UnetGetBackbone(p)
    \/ UnetCallBuild(p)
    \/ BuildCheckNorm(p)
    \/ BuildExtractSkips(p)
    \/ BuildCenter(p)
    \/ BuildStage(p)
    \/ BuildHead(p)
    \/ BuildReturn(p)

\* one thread making calls one after the other
Next ==
    \/ UnetCall(MainThread, UnetConfigs)
    \/ BuildCall(MainThread)
    \/ BlockCall(MainThread)
    \/ Step(MainThread)
    \/ Collect(MainThread)

Spec == Init /\ [][Next]_vars

\* two threads, each making one factory call
ConcNext ==
    \E p \in Threads :
        \/ UnetCall(p, ConcConfigs)
        \/ Step(p)

ConcSpec == Init /\ [][ConcNext]_vars

\* ------------------------------------------------------------ properties
Done(p) == pc[p] = "done"
Returned(p) == pc[p] = "done" /\ result[p].status = "model"
IsBuild(p) == call[p] \in {"Unet", "build_unet"}
BothNorms(p) == cfg[p].use_batchnorm /\ cfg[p].use_groupnorm
StageCount(p) == cfg[p].n_upsample_blocks
SkipCount(p) == Len(cfg[p].encoder_features.list)
StageNodes(g, k) == SelectSeq(g, LAMBDA n : n.stage = k)
NodesOfOp(g, op) == SelectSeq(g, LAMBDA n : n.op = op)
Ops(g) == [k \in 1..Len(g) |-> g[k].op]
NormMode(c) ==
    IF c.use_groupnorm THEN "gn" ELSE IF c.use_batchnorm THEN "bn" ELSE "none"

\* C1: whenever both batch and group normalization are requested, at the
\* Unet, build_unet or decoder block level (either variant), the call raises
\* the configuration error and has created no node and obtained no backbone
\* when it does.  (A block called before any factory call has bound the
\* module's submodules fails on the unbound global instead.)
C1_NormConflictRaisesBeforeAnyNode ==
    \A p \in Threads :
        (Done(p) /\ BothNorms(p) /\ result[p].status # "AttributeError")
        => /\ result[p].status = "ValueError_norm"
           /\ graph[p] = <<>>
           /\ call[p] = "Unet" => backbone[p] = NoBackbone

\* C2: with K <= N skips, every finished stage k of build_unet has exactly
\* one concat node when k < K, fused with the k-th resolved descriptor, and
\* none when k >= K; a returned model has finished all N stages.
C2_SkipFusionOnFirstKStages ==
    \A p \in Threads :
        (IsBuild(p) /\ SkipCount(p) <= StageCount(p))
        => /\ Returned(p) => i[p] = StageCount(p)
           /\ \A k \in 0..(i[p] - 1) :
                LET cats == NodesOfOp(StageNodes(graph[p], k), "Concatenate")
                IN  IF k < SkipCount(p)
                    THEN /\ Len(cats) = 1
                         /\ cats[1].skip =
                              get_layer_output(backbone[p],
                                               cfg[p].encoder_features.list[k + 1]).src
                    ELSE cats = <<>>

C2_Witness ==
    \E p \in Threads :
        /\ Returned(p)
        /\ SkipCount(p) = 4
        /\ StageCount(p) = 5
        /\ NodesOfOp(StageNodes(graph[p], 3), "Concatenate") # <<>>
        /\ NodesOfOp(StageNodes(graph[p], 4), "Concatenate") = <<>>

\* the center block of a graph: center_block1 then center_block2, fed by
\* the backbone output, 512 channels each, in the configured normalization,
\* and feeding what follows
CenterNodes(g) == SelectSeq(g, LAMBDA n : n.name \in {"center_block1", "center_block2"})
HasOneCenterBlock(p) ==
    LET g == result[p].model.nodes
    IN  /\ Len(CenterNodes(g)) = 2
        /\ g[1].name = "center_block1" /\ g[2].name = "center_block2"
        /\ g[1].inp = backbone_output(backbone[p]).src
        /\ g[2].inp = "center_block1"
        /\ g[3].inp = "center_block2"
        /\ \A k \in 1..2 : g[k].filters = 512 /\ g[k].out.c = 512
                           /\ g[k].norm = NormMode(cfg[p])
HasNoCenterBlock(p) ==
    /\ CenterNodes(result[p].model.nodes) = <<>>
    /\ result[p].model.nodes[1].inp = backbone_output(backbone[p]).src
LastKind(p) == backbone[p].layers[Len(backbone[p].layers)].kind

\* C3 as stated: a returned graph has exactly one center block when the
\* backbone's last layer is a spatial-pooling layer, and none otherwise.
C3_CenterBlockIffSpatialPooling ==
    \A p \in Threads :
        (Returned(p) /\ IsBuild(p))
        => IF LastKind(p) \in {"MaxPooling2D", "AveragePooling2D"}
           THEN HasOneCenterBlock(p) ELSE HasNoCenterBlock(p)

\* C3 amended: a returned graph has exactly one center block when the
\* backbone's last layer is a max-pooling layer (MaxPooling2D), and none
\* otherwise.
C3_CenterBlockIffMaxPooling ==
    \A p \in Threads :
        (Returned(p) /\ IsBuild(p))
        => IF LastKind(p) = "MaxPooling2D"
           THEN HasOneCenterBlock(p) ELSE HasNoCenterBlock(p)

C3_Witness ==
    \E p \in Threads :
        /\ Returned(p)
        /\ LastKind(p) = "MaxPooling2D"
        /\ cfg[p].use_groupnorm
        /\ StageCount(p) >= 1
        /\ HasOneCenterBlock(p)

\* C4: under every interleaving of two factory calls, every node of a call
\* is created by the tensor library resolved for that call.
C4_BuildsUseOwnSubmodules ==
    \A p \in Threads :
        \A k \in 1..Len(graph[p]) : graph[p][k].lib = cfg[p].lib

\* C5: a build returns the same set of node names as the build of the same
\* call with the same arguments that returned before it.
C5_SameNamesOnRebuild ==
    \A p \in Threads :
        (Returned(p) /\ prev # NoPrev /\ prev.call = call[p] /\ prev.cfg = cfg[p])
        => Names(result[p].model.nodes) = prev.names

C5_Witness ==
    \E p \in Threads :
        /\ Returned(p) /\ prev # NoPrev /\ prev.call = call[p] /\ prev.cfg = cfg[p]
        /\ nbuilds = 2
        /\ StageCount(p) >= 2
        /\ SkipCount(p) >= 1
        /\ cfg[p].decoder_block_type = "transpose"
        /\ Cardinality(prev.names) >= 8

\* C6: for both block variants a returned graph's output has the backbone
\* output's height and width times 2^N and `classes` channels, every stage
\* doubling height and width once.
C6_OutputShapeSameForBothVariants ==
    \A p \in Threads :
        (Returned(p) /\ IsBuild(p))
        => LET out == result[p].model.output
               top == backbone_output(backbone[p])
               g == result[p].model.nodes
           IN  /\ out.h = top.h * Pow2(StageCount(p))
               /\ out.w = top.w * Pow2(StageCount(p))
               /\ out.c = cfg[p].classes
               /\ \A k \in 0..(StageCount(p) - 1) :
                    LET sn == StageNodes(g, k)
                    IN  /\ sn # <<>>
                        /\ sn[Len(sn)].out.h = top.h * Pow2(k + 1)
                        /\ sn[Len(sn)].out.w = top.w * Pow2(k + 1)

C6_Witness ==
    \E p \in Threads :
        /\ Returned(p) /\ IsBuild(p)
        /\ decoder_block[p] = "DecoderTransposeX2Block"
        /\ StageCount(p) = 5
        /\ result[p].model.output.h = 32 /\ result[p].model.output.w = 64
        /\ result[p].model.output.c = 5

\* a skip descriptor of the call that names no layer of the backbone
Unresolved(p) ==
    \E k \in 1..SkipCount(p) :
        get_layer_output(backbone[p], cfg[p].encoder_features.list[k]) = NoTensor

SkipTensor(p, name) ==
    LET L == backbone[p].layers
    IN  L[CHOOSE k \in 1..Len(L) : L[k].name = name].out

\* C7: build_unet returns no partial graph: an unresolved skip descriptor
\* fails the call before any node is created; a call that raised returns
\* no model; a model is returned only with all its stages and the head
\* created, every concat joining tensors of equal height and width.
C7_NoPartialGraph ==
    \A p \in Threads :
        IsBuild(p)
        => /\ (Done(p) /\ backbone[p] # NoBackbone /\ Unresolved(p)
                 /\ result[p].status # "ValueError_norm")
              => (result[p].status = "ValueError_layer" /\ graph[p] = <<>>)
           /\ result[p].status = "ValueError_layer" => graph[p] = <<>>
           /\ ~Done(p) => result[p] = NoResult
           /\ result[p].status # "model" => result[p].model = NoModel
           /\ Returned(p)
              => LET g == result[p].model.nodes
                 IN  /\ g = graph[p]
                     /\ i[p] = StageCount(p)
                     /\ \A k \in 0..(StageCount(p) - 1) : StageNodes(g, k) # <<>>
                     /\ Len(g) >= 2
                     /\ g[Len(g) - 1].name = "final_conv"
                     /\ g[Len(g)].name = cfg[p].activation
                     /\ result[p].model.output = g[Len(g)].out
                     /\ \A k \in 1..Len(g) :
                          g[k].op = "Concatenate"
                          => /\ SkipTensor(p, g[k].skip).h = g[k].out.h
                             /\ SkipTensor(p, g[k].skip).w = g[k].out.w

C7_Witness ==
    \E p \in Threads :
        /\ IsBuild(p) /\ Done(p)
        /\ result[p].status = "ShapeError"
        /\ i[p] = 1
        /\ graph[p] # <<>>
        /\ result[p].model = NoModel

\* C8: Unet with a decoder_block_type other than 'upsampling' and
\* 'transpose' raises a configuration error with no backbone obtained and
\* no model; with one of the two, every stage of the returned graph is
\* built by that variant.
C8_BlockTypeClosedAndUniform ==
    \A p \in Threads :
        call[p] = "Unet"
        => /\ (Done(p) /\ cfg[p].decoder_block_type \notin {"upsampling", "transpose"})
              => /\ result[p].status \in {"ValueError_block", "ValueError_norm"}
                 /\ ~BothNorms(p) => result[p].status = "ValueError_block"
                 /\ backbone[p] = NoBackbone
                 /\ graph[p] = <<>>
                 /\ result[p].model = NoModel
           /\ Returned(p)
              => LET g == result[p].model.nodes
                     own == IF cfg[p].decoder_block_type = "upsampling"
                            THEN "UpSampling2D" ELSE "Conv2DTranspose"
                     other == IF cfg[p].decoder_block_type = "upsampling"
                              THEN "Conv2DTranspose" ELSE "UpSampling2D"
                 IN  /\ cfg[p].decoder_block_type \in {"upsampling", "transpose"}
                     /\ NodesOfOp(g, other) = <<>>
                     /\ \A k \in 0..(StageCount(p) - 1) :
                          /\ Len(NodesOfOp(StageNodes(g, k), own)) = 1
                          /\ StageNodes(g, k)[1].op = own

C8_Witness ==
    \E p \in Threads :
        /\ call[p] = "Unet" /\ Done(p)
        /\ cfg[p].decoder_block_type = "deconv"
        /\ result[p].status = "ValueError_block"
        /\ layers # None

\* the nodes a finished stage holds, in order
ConvBlockOp(gn) == IF gn THEN "Conv2dGn" ELSE "Conv2dBn"
ExpectedOps(db, hasSkip, gn, bn) ==
    LET cat == IF hasSkip THEN <<"Concatenate">> ELSE <<>>
    IN  IF db = "DecoderUpsamplingX2Block"
        THEN <<"UpSampling2D">> \o cat \o <<ConvBlockOp(gn), ConvBlockOp(gn)>>
        ELSE <<"Conv2DTranspose">>
             \o (IF bn THEN <<"BatchNormalization">> ELSE <<>>)
             \o (IF gn THEN <<"GroupNormalization">> ELSE <<>>)
             \o <<"Activation_relu">> \o cat \o <<ConvBlockOp(gn)>>

StageInOrder(sn, k, db, hasSkip, gn, bn, filters) ==
    /\ Ops(sn) = ExpectedOps(db, hasSkip, gn, bn)
    /\ \A j \in 2..Len(sn) : sn[j].inp = sn[j - 1].name
    /\ IF db = "DecoderUpsamplingX2Block"
       THEN /\ sn[Len(sn) - 1].name = "decoder_stage" \o ToString(k) \o "a"
            /\ sn[Len(sn)].name = "decoder_stage" \o ToString(k) \o "b"
            /\ sn[Len(sn) - 1].filters = filters /\ sn[Len(sn)].filters = filters
       ELSE /\ sn[Len(sn)].name = "decoder_stage" \o ToString(k) \o "b"
            /\ sn[Len(sn)].filters = filters
            /\ sn[1].filters = filters
            /\ sn[1].bias = (~bn /\ ~gn)

\* C9: every finished decoder stage holds its nodes in the fixed order and
\* number of its variant, each node fed by the one before it; stages run in
\* increasing index order, each fed by the last node of the stage before.
C9_StageNodeOrder ==
    \A p \in Threads :
        /\ IsBuild(p)
           => /\ \A k \in 0..(i[p] - 1) :
                   StageInOrder(StageNodes(graph[p], k), k, decoder_block[p],
                                k < Len(skips[p]), cfg[p].use_groupnorm,
                                cfg[p].use_batchnorm, cfg[p].decoder_filters[k + 1])
              /\ \A j \in 2..Len(graph[p]) :
                   /\ graph[p][j].inp = graph[p][j - 1].name
                   /\ graph[p][j].stage # NoStage
                      => graph[p][j - 1].stage \in {NoStage, graph[p][j].stage,
                                                    graph[p][j].stage - 1}
              /\ graph[p] # <<>> => graph[p][1].inp = backbone_output(backbone[p]).src
        /\ (call[p] = "block" /\ result[p].status = "tensor")
           => /\ StageInOrder(graph[p], cfg[p].stage, BlockOfType(cfg[p].decoder_block_type),
                              cfg[p].skip # NoTensor, cfg[p].use_groupnorm,
                              cfg[p].use_batchnorm, cfg[p].decoder_filters[1])
              /\ \A j \in 1..Len(graph[p]) : graph[p][j].stage = cfg[p].stage
              /\ graph[p][1].inp = cfg[p].input.src

C9_Witness ==
    \E p \in Threads :
        /\ Returned(p) /\ IsBuild(p)
        /\ decoder_block[p] = "DecoderTransposeX2Block"
        /\ cfg[p].use_batchnorm
        /\ StageCount(p) = 2 /\ SkipCount(p) = 1
        /\ Ops(StageNodes(graph[p], 0)) =
             <<"Conv2DTranspose", "BatchNormalization", "Activation_relu",
               "Concatenate", "Conv2dBn">>
        /\ Ops(StageNodes(graph[p], 1)) =
             <<"Conv2DTranspose", "BatchNormalization", "Activation_relu", "Conv2dBn">>

\* C10: in a returned graph every conv block and every normalization node
\* the decoder created follows the one configured mode (group iff
\* use_groupnorm, batch iff use_batchnorm, none iff neither), and no graph
\* holds both a batch and a group normalization.
C10_OneNormalizationMode ==
    \A p \in Threads :
        (Returned(p) /\ IsBuild(p))
        => LET g == result[p].model.nodes
               m == NormMode(cfg[p])
           IN  /\ ~BothNorms(p)
               /\ m = "gn" <=> cfg[p].use_groupnorm
               /\ m = "bn" <=> cfg[p].use_batchnorm
               /\ \A k \in 1..Len(g) :
                    /\ g[k].op \in {"Conv2dBn", "Conv2dGn"} => g[k].norm = m
                    /\ g[k].norm # "none" => g[k].norm = m
                    /\ g[k].op = "Conv2DTranspose"
                       => /\ m # "none" => g[k + 1].norm = m
                          /\ m = "none" => g[k + 1].op = "Activation_relu"
               /\ ~(\E a, b \in 1..Len(g) : g[a].norm = "bn" /\ g[b].norm = "gn")

C10_Witness ==
    \E p \in Threads :
        /\ Returned(p) /\ IsBuild(p)
        /\ cfg[p].use_groupnorm
        /\ decoder_block[p] = "DecoderTransposeX2Block"
        /\ LastKind(p) = "MaxPooling2D"
        /\ StageCount(p) >= 2
        /\ NodesOfOp(graph[p], "GroupNormalization") # <<>>

====
